---- MODULE Spec2Model ----
(***************************************************************************)
(* Model of rlua's src/scope.rs: Scope, its destructor registry, the       *)
(* scoped callbacks and userdata it creates, the callbacks' dynamic borrow *)
(* checks, and the two-phase teardown of Drop for Scope.                   *)
(***************************************************************************)
EXTENDS Integers, Sequences, FiniteSets, TLC

\* ------------------------------------------------------------------ bounds
MaxFuncs == 2      \* callback handles created over a run
MaxUserData == 2   \* userdata handles created over a run
MaxMethods == 2    \* methods and meta-methods one UserData type registers
MaxDepth == 2      \* nesting depth of host callbacks in flight
MaxScopes == 2     \* scopes opened one after the other on the same Lua state
NumAddrs == 2      \* heap addresses the allocator hands out for Rc cells

\* ------------------------------------------------------- values and tags
\* lua_touserdata of a uservalue that is not a light userdata (nil): NULL.
NullPtr == 0
\* check_ud_type's `value`: None (no first argument), a Value that is not
\* Value::UserData, or Value::UserData(u) with u >= 1.
NoArg == -1
NonUserData == 0

Addrs == 1..NumAddrs

\* The four NonStaticMethod variants ("Fn" and "FnMut" name the closures of
\* create_function and create_function_mut).
MethodVariants == {"Method", "MethodMut", "Function", "FunctionMut"}
\* The variants whose callback closure captures clones of the Rc cell.
CapturesData(v) == v \in {"Method", "MethodMut"}
\* The variants that keep their closure in a RefCell.
HasClosureCell(v) == v \in {"FnMut", "MethodMut", "FunctionMut"}

VARIABLES
    scopeState,   \* position of the current Scope in its life: Active until
                  \* Drop::drop starts, Invalidating in the drain, Dropped in
                  \* drop(to_drop), Terminated after it
    scopeNo,      \* which Scope (1..MaxScopes) is the current one
    destructors,  \* Scope.destructors: the registry, in insertion order
    to_drop,      \* Drop::drop's to_drop: the collected boxes, in order
    fns,          \* every callback handle created in the Lua state
    uds,          \* every userdata handle created in the Lua state
    cells,        \* the heap: per address, the Rc<RefCell<T>> living there
    stack,        \* host callbacks in flight, innermost last
    result,       \* what the last registration, call or lookup returned
    invLog,       \* destructors invoked by the current Scope's drop, in order
    dropLog,      \* boxes dropped by the current Scope's drop, in order
    regLog,       \* destructors pushed on the current Scope, in order
    panicked      \* a drop of Phase 2 panicked

vars == <<scopeState, scopeNo, destructors, to_drop, fns, uds, cells, stack,
          result, invLog, dropLog, regLog, panicked>>

\* ------------------------------------------------------------ construction
\* An address with no Rc cell on it.
FreeCell == [owners |-> 0, readers |-> 0, writer |-> FALSE]

\* Scope::new: an empty registry, on a Lua state that holds no handle yet.
Init ==
    /\ scopeState = "Active"
    /\ scopeNo = 1
    /\ destructors = <<>>
    /\ to_drop = <<>>
    /\ fns = <<>>
    /\ uds = <<>>
    /\ cells = [a \in Addrs |-> FreeCell]
    /\ stack = <<>>
    /\ result = "Ok"
    /\ invLog = <<>>
    /\ dropLog = <<>>
    /\ regLog = <<>>
    /\ panicked = FALSE

\* A deferred action: which kind of handle it invalidates, and which one.
Destructor(kind, h) == [kind |-> kind, h |-> h]

\* The Lua function made by Lua::create_callback for a boxed closure: upvalue 1
\* holds the box; `cell` is the Rc the closure captured (NullPtr: none),
\* `owner` the userdata whose method it is (0: none), `borrowed` the state of
\* the RefCell around an FnMut closure.
Callback(variant, addr, owner, reachable) ==
    [variant |-> variant,
     cell |-> IF CapturesData(variant) THEN addr ELSE NullPtr,
     owner |-> owner, upvalue |-> "callback", box |-> "lua",
     borrowed |-> FALSE, reachable |-> reachable]

\* A mutant of create_callback: the destructor is pushed before the fallible
\* handle creation, so a failed creation leaves a deferred action behind.
create_callback_push_first(st, f, ok) ==
    IF ok
    THEN [fns |-> Append(st.fns, f),
          destructors |-> Append(st.destructors,
                                 Destructor("callback", Len(st.fns) + 1)),
          res |-> "Ok"]
    ELSE [fns |-> st.fns,
          destructors |-> Append(st.destructors,
                                 Destructor("callback", Len(st.fns) + 1)),
          res |-> "Error"]

\* A mutant of create_callback: the handle is created, but no destructor is
\* pushed for it.
create_callback_no_push(st, f, ok) ==
    IF ok
    THEN [fns |-> Append(st.fns, f), destructors |-> st.destructors,
          res |-> "Ok"]
    ELSE [fns |-> st.fns, destructors |-> st.destructors, res |-> "Error"]


\* Scope::create_callback: self.lua.create_callback(f)? returns the error
\* before anything is pushed; on success the destructor of the new handle is
\* pushed at the back of the registry.
create_callback(st, f, ok) ==
    IF ok
    THEN [fns |-> Append(st.fns, f),
          destructors |-> Append(st.destructors,
                                 Destructor("callback", Len(st.fns) + 1)),
          res |-> "Ok"]
    ELSE [fns |-> st.fns, destructors |-> st.destructors, res |-> "Error"]

\* The loops over ud_methods.meta_methods and ud_methods.methods: one
\* wrap_method, hence one create_callback, per entry, in iteration order.
RECURSIVE wrap_methods(_, _, _, _, _)
wrap_methods(st, ms, addr, owner, reachable) ==
    IF ms = <<>>
    THEN st
    ELSE wrap_methods(
             create_callback(st, Callback(Head(ms), addr, owner, reachable), TRUE),
             Tail(ms), addr, owner, reachable)

\* The destructors pushed while fns grew from `before` to `after` handles.
Pushed(before, after) ==
    [i \in 1..(after - before) |-> Destructor("callback", before + i)]

\* Registration is open to the body of Lua::scope only: the Scope is borrowed
\* for the body, and no callback can capture it.
CanRegister == scopeState = "Active" /\ stack = <<>>

\* Scope::create_function and Scope::create_function_mut (variant "FnMut":
\* the closure sits in a RefCell, then goes through create_function).
CreateFunction(variant, ok) ==
    /\ CanRegister
    /\ Len(fns) < MaxFuncs
    /\ LET r == create_callback([fns |-> fns, destructors |-> destructors],
                                Callback(variant, NullPtr, 0, TRUE), ok)
       IN /\ fns' = r.fns
          /\ destructors' = r.destructors
          /\ regLog' = regLog \o Pushed(Len(fns), Len(r.fns))
          /\ result' = r.res
    /\ UNCHANGED <<scopeState, scopeNo, to_drop, uds, cells, stack, invLog,
                   dropLog, panicked>>

\* The userdata made by Lua::make_userdata: the RefCell<T> lives in the
\* userdata's storage, and no uservalue is set.
StaticUserData ==
    [kind |-> "static", token |-> NullPtr,
     storage |-> "value", host |-> "live"]

\* Scope::create_static_userdata: make_userdata(data)? first, then the push.
CreateStaticUserData(ok) ==
    /\ CanRegister
    /\ Len(uds) < MaxUserData
    /\ IF ok
       THEN /\ uds' = Append(uds, StaticUserData)
            /\ destructors' = Append(destructors,
                                     Destructor("userdata", Len(uds) + 1))
            /\ regLog' = Append(regLog, Destructor("userdata", Len(uds) + 1))
            /\ result' = "Ok"
       ELSE /\ UNCHANGED <<uds, destructors, regLog>>
            /\ result' = "Error"
    /\ UNCHANGED <<scopeState, scopeNo, to_drop, fns, cells, stack, invLog,
                   dropLog, panicked>>

\* Strong references the callbacks of `ms` keep on the data's Rc: check_data
\* and method_data, for each variant that receives the userdata.
RECURSIVE Captures(_)
Captures(ms) ==
    IF ms = <<>> THEN 0
    ELSE (IF CapturesData(Head(ms)) THEN 2 ELSE 0) + Captures(Tail(ms))

\* The userdata made by create_nonstatic_userdata: push_userdata(state, ())
\* with the address of the Rc cell as a light userdata in its uservalue.
NonStaticUserData(addr, owners) ==
    [kind |-> "nonstatic", token |-> addr,
     storage |-> "unit", host |-> IF owners > 0 THEN "live" ELSE "dropped"]

\* Sequences of method variants a UserData type may register.
RECURSIVE SeqsUpTo(_, _)
SeqsUpTo(S, n) ==
    IF n = 0 THEN {<<>>}
    ELSE LET shorter == SeqsUpTo(S, n - 1)
         IN shorter \cup {Append(s, x) : s \in shorter, x \in S}

\* Scope::create_nonstatic_userdata. Rc::new puts the cell on a free address;
\* `n` callbacks are made before a primitive fails (ok: none fails, and
\* n = Len(ms)). The local `data` is dropped on return, so the cell stays
\* only as long as callbacks that captured it keep it.
CreateNonStaticUserData(ms, addr, n, ok) ==
    /\ CanRegister
    /\ Len(uds) < MaxUserData
    /\ Len(fns) + Len(ms) <= MaxFuncs
    /\ cells[addr].owners = 0
    /\ n \in 0..Len(ms)
    /\ ok => n = Len(ms)
    /\ LET made == SubSeq(ms, 1, n)
           st == wrap_methods([fns |-> fns, destructors |-> destructors],
                              made, addr, IF ok THEN Len(uds) + 1 ELSE 0, ok)
           owners == Captures(made)
       IN /\ fns' = st.fns
          /\ destructors' = st.destructors
          /\ regLog' = regLog \o Pushed(Len(fns), Len(st.fns))
          /\ cells' = [cells EXCEPT ![addr] =
                          [owners |-> owners, readers |-> 0, writer |-> FALSE]]
          /\ uds' = IF ok THEN Append(uds, NonStaticUserData(addr, owners))
                          ELSE uds
          /\ result' = IF ok THEN "Ok" ELSE "Error"
    /\ UNCHANGED <<scopeState, scopeNo, to_drop, stack, invLog, dropLog,
                   panicked>>

\* ------------------------------------------------------------------ calls
\* What invoking a callback comes to: an error returned at once, or the user
\* closure entered (runs) with the borrows taken for it.
Fails(err) == [outcome |-> err, runs |-> FALSE, fns |-> fns, cells |-> cells]
Runs(f, c) == [outcome |-> "Invoked", runs |-> TRUE, fns |-> f, cells |-> c]

\* A mutant of check_ud_type: only a userdata is compared; a missing first
\* argument, or one that is no userdata, passes.
check_ud_type_userdata_only(addr, recv) ==
    recv \in 1..Len(uds) => uds[recv].token = addr


\* check_ud_type: the first argument must be there, be a Value::UserData, and
\* carry in its uservalue the address of the cell this callback captured.
check_ud_type(addr, recv) ==
    /\ recv \in 1..Len(uds)
    /\ uds[recv].token = addr

\* The closure of create_function: no cell, no check.
call_function(h) == Runs(fns, cells)

\* A mutant of call_function_mut: the closure is called through the RefCell
\* without try_borrow_mut, so a reentrant call enters the body again.
call_function_mut_unchecked(h) ==
    Runs([fns EXCEPT ![h].borrowed = TRUE], cells)

\* The closure of create_function_mut, and wrap_method's FunctionMut arm:
\* try_borrow_mut on the closure's RefCell, RecursiveMutCallback if it is held.
call_function_mut(h) ==
    IF fns[h].borrowed
    THEN Fails("RecursiveMutCallback")
    ELSE Runs([fns EXCEPT ![h].borrowed = TRUE], cells)

\* A mutant of call_method: the data is read without try_borrow, whatever
\* borrow is outstanding.
call_method_unchecked(h, recv) ==
    IF ~check_ud_type(fns[h].cell, recv)
    THEN Fails("UserDataTypeMismatch")
    ELSE Runs(fns, [cells EXCEPT ![fns[h].cell].readers = @ + 1])

\* wrap_method's Method arm: the identity check, then try_borrow on the data.
call_method(h, recv) ==
    IF ~check_ud_type(fns[h].cell, recv)
    THEN Fails("UserDataTypeMismatch")
    ELSE IF cells[fns[h].cell].writer
    THEN Fails("UserDataBorrowError")
    ELSE Runs(fns, [cells EXCEPT ![fns[h].cell].readers = @ + 1])

\* A mutant of call_method_mut: the borrows are tried before the identity
\* check.
call_method_mut_borrow_first(h, recv) ==
    IF fns[h].borrowed
    THEN Fails("RecursiveMutCallback")
    ELSE IF cells[fns[h].cell].writer \/ cells[fns[h].cell].readers > 0
    THEN Fails("UserDataBorrowMutError")
    ELSE IF ~check_ud_type(fns[h].cell, recv)
    THEN Fails("UserDataTypeMismatch")
    ELSE Runs([fns EXCEPT ![h].borrowed = TRUE],
              [cells EXCEPT ![fns[h].cell].writer = TRUE])

\* A mutant of call_method_mut: the data is written through without
\* try_borrow_mut on its cell.
call_method_mut_unchecked(h, recv) ==
    IF ~check_ud_type(fns[h].cell, recv)
    THEN Fails("UserDataTypeMismatch")
    ELSE IF fns[h].borrowed
    THEN Fails("RecursiveMutCallback")
    ELSE Runs([fns EXCEPT ![h].borrowed = TRUE],
              [cells EXCEPT ![fns[h].cell].writer = TRUE])

\* wrap_method's MethodMut arm: the identity check, try_borrow_mut on the
\* method's RefCell, then try_borrow_mut on the data; an early return drops
\* the guard already taken.
call_method_mut(h, recv) ==
    IF ~check_ud_type(fns[h].cell, recv)
    THEN Fails("UserDataTypeMismatch")
    ELSE IF fns[h].borrowed
    THEN Fails("RecursiveMutCallback")
    ELSE IF cells[fns[h].cell].writer \/ cells[fns[h].cell].readers > 0
    THEN Fails("UserDataBorrowMutError")
    ELSE Runs([fns EXCEPT ![h].borrowed = TRUE],
              [cells EXCEPT ![fns[h].cell].writer = TRUE])

\* A mutant of invoke: the Function and FunctionMut arms check the receiver
\* as the method arms do.
invoke_checked_functions(h, recv) ==
    CASE fns[h].variant = "Fn" -> call_function(h)
      [] fns[h].variant = "FnMut" -> call_function_mut(h)
      [] fns[h].variant = "Method" -> call_method(h, recv)
      [] fns[h].variant = "MethodMut" -> call_method_mut(h, recv)
      [] fns[h].variant \in {"Function", "FunctionMut"} ->
             IF recv # fns[h].owner THEN Fails("UserDataTypeMismatch")
             ELSE IF fns[h].variant = "Function" THEN call_function(h)
             ELSE call_function_mut(h)


\* The boxed closure behind handle h, by the way it was made.
invoke(h, recv) ==
    CASE fns[h].variant = "Fn" -> call_function(h)
      [] fns[h].variant = "FnMut" -> call_function_mut(h)
      [] fns[h].variant = "Method" -> call_method(h, recv)
      [] fns[h].variant = "MethodMut" -> call_method_mut(h, recv)
      [] fns[h].variant = "Function" -> call_function(h)
      [] fns[h].variant = "FunctionMut" -> call_function_mut(h)

\* The runtime's call of a callback function: a nil upvalue 1 is a destructed
\* callback; otherwise the box the upvalue points to is invoked (a box that
\* was dropped already: the freed closure is entered).
callback_call(h, recv) ==
    IF fns[h].upvalue = "nil"
    THEN Fails("CallbackDestructed")
    ELSE IF fns[h].box = "dropped"
    THEN Runs(fns, cells)
    ELSE invoke(h, recv)

\* What can be passed as first argument.
Receivers == {NoArg, NonUserData} \cup (1..Len(uds))

\* Lua code calls a callback: from the body of Lua::scope or between scopes
\* (nothing in flight), from inside a callback in flight, or from host drop
\* logic while a box of to_drop is being dropped.
CanCall ==
    \/ scopeState \in {"Active", "Terminated"}
    \/ scopeState = "Dropped" /\ to_drop # <<>>

Call(h, recv) ==
    /\ CanCall
    /\ h \in 1..Len(fns)
    /\ fns[h].reachable
    /\ recv \in Receivers
    /\ Len(stack) <= MaxDepth
    /\ LET r == callback_call(h, recv)
       IN /\ r.runs => Len(stack) < MaxDepth
          /\ fns' = r.fns
          /\ cells' = r.cells
          /\ stack' = IF r.runs THEN Append(stack, h) ELSE stack
          /\ result' = r.outcome
    /\ UNCHANGED <<scopeState, scopeNo, destructors, to_drop, uds, invLog,
                   dropLog, regLog, panicked>>

\* A mutant of release: the Ref or RefMut of the data is dropped, but the
\* RefMut of the closure's own RefCell is leaked.
release_leaks_closure_cell(h) ==
    [fns |-> fns,
     cells |-> CASE fns[h].variant = "Method" ->
                        [cells EXCEPT ![fns[h].cell].readers = @ - 1]
                 [] fns[h].variant = "MethodMut" ->
                        [cells EXCEPT ![fns[h].cell].writer = FALSE]
                 [] OTHER -> cells]


\* The guards a returning invocation of h drops: the RefMut of its closure
\* cell, and the Ref or RefMut of the data.
release(h) ==
    [fns |-> IF HasClosureCell(fns[h].variant)
             THEN [fns EXCEPT ![h].borrowed = FALSE] ELSE fns,
     cells |-> CASE fns[h].variant = "Method" ->
                        [cells EXCEPT ![fns[h].cell].readers = @ - 1]
                 [] fns[h].variant = "MethodMut" ->
                        [cells EXCEPT ![fns[h].cell].writer = FALSE]
                 [] OTHER -> cells]

\* The innermost callback in flight returns, with a value or with the user
\* logic's error.
Return(outcome) ==
    /\ stack # <<>>
    /\ LET h == stack[Len(stack)]
           r == release(h)
       IN /\ fns' = r.fns
          /\ cells' = r.cells
          /\ result' = outcome
    /\ stack' = SubSeq(stack, 1, Len(stack) - 1)
    /\ UNCHANGED <<scopeState, scopeNo, destructors, to_drop, uds, invLog,
                   dropLog, regLog, panicked>>

\* A lookup of the host value through a userdata handle (AnyUserData::borrow):
\* the value while the storage holds it, an error once it was taken; a
\* non-static userdata has no TypeId to be looked up by.
Lookup(u) ==
    /\ CanCall
    /\ u \in 1..Len(uds)
    /\ result' = CASE uds[u].storage = "value" -> "Value"
                   [] uds[u].storage = "destructed" -> "Destructed"
                   [] OTHER -> "UserDataTypeMismatch"
    /\ UNCHANGED <<scopeState, scopeNo, destructors, to_drop, fns, uds, cells,
                   stack, invLog, dropLog, regLog, panicked>>

\* --------------------------------------------------------------- teardown
\* What a destructor and a drop act on.
World == [fns |-> fns, uds |-> uds, cells |-> cells, to_drop |-> to_drop,
          dropLog |-> dropLog]

\* What is left of a callback once its box is dropped: the Lua function, with
\* no closure, no RefCell and no Rc behind it.
Dropped(f) ==
    [variant |-> "none", cell |-> NullPtr, owner |-> 0, upvalue |-> f.upvalue,
     box |-> "dropped", borrowed |-> FALSE, reachable |-> f.reachable]

\* Dropping the box `d` of to_drop: a callback's closure goes, and with it the
\* two Rc clones it captured (the last one frees the cell and drops the data);
\* a static userdata's RefCell<T> goes.
drop_box(w, d) ==
    IF d.kind = "callback"
    THEN LET f == w.fns[d.h]
             left == IF f.cell = NullPtr THEN 0 ELSE w.cells[f.cell].owners - 2
         IN [w EXCEPT
                !.fns = [w.fns EXCEPT ![d.h] = Dropped(f)],
                !.cells = IF f.cell = NullPtr THEN w.cells
                          ELSE IF left = 0
                          THEN [w.cells EXCEPT ![f.cell] = FreeCell]
                          ELSE [w.cells EXCEPT ![f.cell].owners = left],
                !.uds = IF f.cell # NullPtr /\ left = 0 /\ f.owner # 0
                        THEN [w.uds EXCEPT ![f.owner].host = "dropped"]
                        ELSE w.uds,
                !.dropLog = Append(w.dropLog, d)]
    ELSE [w EXCEPT !.uds = [w.uds EXCEPT ![d.h].host = "dropped"],
                   !.dropLog = Append(w.dropLog, d)]

\* A mutant of invalidate: the userdata's value is handed to Drop::drop, but
\* the handle's storage is left as it was (no destructed metatable).
invalidate_keeps_storage(w, d) ==
    IF d.kind = "callback"
    THEN [w EXCEPT !.fns = [w.fns EXCEPT ![d.h].upvalue = "nil",
                                         ![d.h].box = "to_drop"]]
    ELSE [w EXCEPT !.uds = [w.uds EXCEPT ![d.h].host = "collected"]]

\* The invalidation half of a destructor.
invalidate(w, d) ==
    IF d.kind = "callback"
    THEN [w EXCEPT !.fns = [w.fns EXCEPT ![d.h].upvalue = "nil",
                                         ![d.h].box = "to_drop"]]
    ELSE [w EXCEPT !.uds = [w.uds EXCEPT ![d.h].storage = "destructed",
                                         ![d.h].host = "collected"]]

\* A mutant of destructor: the value taken out of the handle is dropped by
\* the destructor itself instead of being handed back to Drop::drop.
destructor_eager(w, d) == drop_box(invalidate(w, d), d)

\* A mutant of destructor: the box is taken out of the callback's upvalue,
\* but the upvalue is not set to nil.
destructor_keeps_upvalue(w, d) ==
    LET v == invalidate(w, d)
    IN [v EXCEPT !.to_drop = Append(v.to_drop, d),
                 !.fns = IF d.kind = "callback"
                         THEN [v.fns EXCEPT ![d.h].upvalue = "callback"]
                         ELSE v.fns]

\* The closures pushed by create_callback and create_static_userdata: the
\* callback's box is taken out of upvalue 1 and the upvalue set to nil; the
\* userdata's value is taken out of its storage, which gets the destructed
\* metatable. The value is returned, and collected by Drop::drop.
destructor(w, d) ==
    LET v == invalidate(w, d)
    IN [v EXCEPT !.to_drop = Append(v.to_drop, d)]

\* A mutant of drain_next: the registry is emptied from the back.
drain_next_back(ds) ==
    [d |-> ds[Len(ds)], rest |-> SubSeq(ds, 1, Len(ds) - 1)]

\* A mutant of drain_next: the first destructor is skipped.
drain_next_skip(ds) ==
    IF Len(ds) > 1 THEN [d |-> ds[2], rest |-> Tail(Tail(ds))]
    ELSE [d |-> ds[1], rest |-> <<>>]

\* A mutant of drain_next: the registry is iterated, not drained.
drain_next_keep(ds) == [d |-> Head(ds), rest |-> ds]

\* destructors.drain(..): the next destructor, from the front, and what stays.
drain_next(ds) == [d |-> Head(ds), rest |-> Tail(ds)]

\* Drop::drop is entered: the body of Lua::scope has returned.
BeginDrop ==
    /\ scopeState = "Active"
    /\ stack = <<>>
    /\ scopeState' = "Invalidating"
    /\ result' = "Ok"
    /\ UNCHANGED <<scopeNo, destructors, to_drop, fns, uds, cells, stack,
                   invLog, dropLog, regLog, panicked>>

\* Phase 1, one turn of .map(|destructor| destructor()).
RunDestructor ==
    /\ scopeState = "Invalidating"
    /\ destructors # <<>>
    /\ LET n == drain_next(destructors)
           w == destructor(World, n.d)
       IN /\ destructors' = n.rest
          /\ fns' = w.fns
          /\ uds' = w.uds
          /\ cells' = w.cells
          /\ to_drop' = w.to_drop
          /\ dropLog' = w.dropLog
          /\ invLog' = Append(invLog, n.d)
    /\ UNCHANGED <<scopeState, scopeNo, stack, result, regLog, panicked>>

\* Phase 1 ends: .collect() has the whole of to_drop.
EndDrain ==
    /\ scopeState = "Invalidating"
    /\ destructors = <<>>
    /\ scopeState' = "Dropped"
    /\ UNCHANGED <<scopeNo, destructors, to_drop, fns, uds, cells, stack,
                   result, invLog, dropLog, regLog, panicked>>

\* Phase 2, drop(to_drop): the Vec drops its elements front to back; an
\* element's drop may panic, and the unwinding drops the elements left.
DropStep(panic) ==
    /\ scopeState = "Dropped"
    /\ to_drop # <<>>
    /\ stack = <<>>
    /\ LET w == drop_box(World, Head(to_drop))
       IN /\ fns' = w.fns
          /\ uds' = w.uds
          /\ cells' = w.cells
          /\ dropLog' = w.dropLog
    /\ to_drop' = Tail(to_drop)
    /\ panicked' = (panicked \/ panic)
    /\ UNCHANGED <<scopeState, scopeNo, destructors, stack, result, invLog,
                   regLog>>

\* Drop::drop returns (or its panic leaves it).
Terminate ==
    /\ scopeState = "Dropped"
    /\ to_drop = <<>>
    /\ stack = <<>>
    /\ scopeState' = "Terminated"
    /\ UNCHANGED <<scopeNo, destructors, to_drop, fns, uds, cells, stack,
                   result, invLog, dropLog, regLog, panicked>>

\* Lua::scope is called again on the same Lua state: Scope::new.
NewScope ==
    /\ scopeState = "Terminated"
    /\ stack = <<>>
    /\ scopeNo < MaxScopes
    /\ scopeState' = "Active"
    /\ scopeNo' = scopeNo + 1
    /\ destructors' = <<>>
    /\ invLog' = <<>>
    /\ dropLog' = <<>>
    /\ regLog' = <<>>
    /\ panicked' = FALSE
    /\ result' = "Ok"
    /\ UNCHANGED <<to_drop, fns, uds, cells, stack>>

\* ---------------------------------------------------------- specification
Next ==
    \/ \E variant \in {"Fn", "FnMut"}, ok \in BOOLEAN : CreateFunction(variant, ok)
    \/ \E ok \in BOOLEAN : CreateStaticUserData(ok)
    \/ \E ms \in SeqsUpTo(MethodVariants, MaxMethods), addr \in Addrs,
          n \in 0..MaxMethods, ok \in BOOLEAN :
              CreateNonStaticUserData(ms, addr, n, ok)
    \/ \E h \in 1..MaxFuncs, recv \in (-1)..MaxUserData : Call(h, recv)
    \/ \E outcome \in {"Ok", "UserError"} : Return(outcome)
    \/ \E u \in 1..MaxUserData : Lookup(u)
    \/ BeginDrop
    \/ RunDestructor
    \/ EndDrain
    \/ \E panic \in BOOLEAN : DropStep(panic)
    \/ Terminate
    \/ NewScope

Spec == Init /\ [][Next]_vars

\* ------------------------------------------------------ claims: vocabulary
\* The handle a deferred action is about is invalid: the callback's upvalue
\* is nil, the userdata's storage is destructed.
Invalid(d) ==
    IF d.kind = "callback" THEN fns[d.h].upvalue = "nil"
    ELSE uds[d.h].storage = "destructed"

\* Callback h was created in the current Scope (regLog is reset by Scope::new).
InScope(h) == \E i \in 1..Len(regLog) : regLog[i] = Destructor("callback", h)
UdInScope(u) == \E i \in 1..Len(regLog) : regLog[i] = Destructor("userdata", u)

\* The teardown of the Scope that created callback h has finished.
Ended(h) == ~InScope(h) \/ scopeState = "Terminated"

IsPrefix(s, t) == Len(s) <= Len(t) /\ SubSeq(t, 1, Len(s)) = s

\* How many invocations of h are in flight.
Activations(h) == Cardinality({i \in 1..Len(stack) : stack[i] = h})

Calls == (1..Len(fns)) \X Receivers

\* ---------------------------------------------------------------------- C1
\* Every handle of an ended Scope is inert: the callback's upvalue is nil, any
\* call of it comes to CallbackDestructed, none of its invocations is in
\* flight; the static userdata's storage is destructed.
C1_Inert ==
    /\ \A h \in 1..Len(fns) :
           Ended(h) =>
               /\ fns[h].upvalue = "nil"
               /\ \A i \in 1..Len(stack) : stack[i] # h
               /\ \A recv \in Receivers :
                      callback_call(h, recv).outcome = "CallbackDestructed"
    /\ \A u \in 1..Len(uds) :
           (uds[u].kind = "static" /\ (~UdInScope(u) \/ scopeState = "Terminated"))
               => uds[u].storage = "destructed"

C3_AllInvalid ==
    /\ (scopeState = "Dropped" \/ panicked) =>
           \A i \in 1..Len(regLog) : Invalid(regLog[i])
    /\ \A h \in 1..Len(fns) :
           fns[h].box \in {"to_drop", "dropped"} => fns[h].upvalue = "nil"
    /\ \A u \in 1..Len(uds) :
           (uds[u].kind = "static" /\ uds[u].host \in {"collected", "dropped"})
               => uds[u].storage = "destructed"
    /\ scopeState = "Dropped" => stack = <<>>

\* C3: when a drop of Phase 2 panics, or host drop logic calls back into the
\* runtime during Phase 2, every handle registered in the Scope is already
\* invalid: the nested call returns CallbackDestructed and enters no closure,
\* and no handle leads to a value that is collected, being dropped or dropped.
C3_TeardownFailureSafe ==
    /\ []C3_AllInvalid
    /\ [][\A c \in Calls :
              (Call(c[1], c[2]) /\ scopeState = "Dropped")
                  => (result' = "CallbackDestructed" /\ stack' = stack)]_vars

\* After a drop of Phase 2 panicked, with values still to drop, host drop
\* logic called a handle of the Scope and got CallbackDestructed.
C3_Witness ==
    /\ scopeState = "Dropped"
    /\ panicked
    /\ to_drop # <<>>
    /\ result = "CallbackDestructed"

\* ---------------------------------------------------------------------- C4
\* C4: Phase 1 invokes the deferred actions in registration order and Phase 2
\* drops the values they returned in that same order: the invocations so far
\* are a prefix of the registrations, the drops so far a prefix of the
\* invocations, the values still to drop are the rest in order, and a
\* finished teardown has invoked and dropped exactly the registrations.
C4_TeardownOrder ==
    /\ IsPrefix(invLog, regLog)
    /\ IsPrefix(dropLog, invLog)
    /\ scopeState # "Active" => dropLog \o to_drop = invLog
    /\ scopeState = "Terminated" => (invLog = regLog /\ dropLog = regLog)

\* A finished teardown of three or more deferred actions, for callbacks and
\* for static userdata.
C4_Witness ==
    /\ scopeState = "Terminated"
    /\ Len(dropLog) >= 3
    /\ \E i, j \in 1..Len(dropLog) :
           dropLog[i].kind = "callback" /\ dropLog[j].kind = "userdata"

\* ---------------------------------------------------------------------- C5
\* A live method callback: made by wrap_method's Method or MethodMut arm, its
\* box still in the upvalue.
LiveMethod(h) ==
    /\ fns[h].variant \in {"Method", "MethodMut"}
    /\ fns[h].upvalue = "callback"

\* C5: a method or meta-method callback built for the scoped data object A,
\* called with the handle of another scoped data object B (made by a separate
\* create_nonstatic_userdata) as receiver, returns UserDataTypeMismatch and
\* does not enter the user method.
C5_InstanceNonInterchangeable ==
    [][\A c \in Calls :
          (/\ Call(c[1], c[2])
           /\ LiveMethod(c[1])
           /\ c[2] \in 1..Len(uds)
           /\ uds[c[2]].kind = "nonstatic"
           /\ c[2] # fns[c[1]].owner)
              => (result' = "UserDataTypeMismatch" /\ stack' = stack)]_vars

\* ---------------------------------------------------------------------- C6
\* A live closure of create_function_mut.
LiveFnMut(h) == fns[h].variant = "FnMut" /\ fns[h].upvalue = "callback"

\* A closure of create_function_mut has at most one activation, its RefCell is
\* borrowed exactly while it has one, and a call of it then is refused.
C6_OneActivation ==
    \A h \in 1..Len(fns) :
        LiveFnMut(h) =>
            /\ Activations(h) <= 1
            /\ fns[h].borrowed <=> Activations(h) = 1
            /\ Activations(h) = 1 =>
                   callback_call(h, NoArg).outcome = "RecursiveMutCallback"

\* C6: a closure of create_function_mut called while an invocation of it is
\* in flight, at any depth, returns RecursiveMutCallback without entering the
\* body and leaves the invocations in flight as they are; its body never has
\* two activations, and its RefCell is borrowed exactly while it is in flight.
C6_ReentrantMutationRejected ==
    /\ []C6_OneActivation
    /\ [][\A c \in Calls :
              (Call(c[1], c[2]) /\ LiveFnMut(c[1]) /\ Activations(c[1]) >= 1)
                  => (/\ result' = "RecursiveMutCallback"
                      /\ stack' = stack
                      /\ fns' = fns)]_vars

\* A closure of create_function_mut is in flight below another callback, and
\* the call that came back RecursiveMutCallback can only have been to it.
C6_Witness ==
    /\ result = "RecursiveMutCallback"
    /\ Len(stack) = 2
    /\ stack[1] # stack[2]
    /\ fns[stack[1]].variant = "FnMut"
    /\ \A h \in 1..Len(fns) : fns[h].variant \in {"Fn", "FnMut"}

\* ---------------------------------------------------------------------- C7
\* Read and write borrows the invocations in flight hold on the cell at a.
ReadersInFlight(a) ==
    Cardinality({i \in 1..Len(stack) :
                    fns[stack[i]].variant = "Method" /\ fns[stack[i]].cell = a})
WritersInFlight(a) ==
    Cardinality({i \in 1..Len(stack) :
                    fns[stack[i]].variant = "MethodMut" /\ fns[stack[i]].cell = a})

\* The receiver carries the identity token of the cell h captured.
Matches(h, recv) == check_ud_type(fns[h].cell, recv)

\* The borrow flags of every cell are those of the invocations in flight: as
\* many readers as read-only methods, a writer for one mutating method, and
\* never a writer with another borrow.
C7_Cells ==
    \A a \in Addrs :
        /\ cells[a].readers = ReadersInFlight(a)
        /\ cells[a].writer <=> WritersInFlight(a) = 1
        /\ WritersInFlight(a) <= 1
        /\ WritersInFlight(a) = 1 => ReadersInFlight(a) = 0

\* C7: the cell of a scoped data object has no borrow, one writer, or readers
\* only; a read-only method called with its own receiver enters the user
\* method whenever no writer holds the cell, also under other readers, and
\* returns UserDataBorrowError under a writer; a mutating method called under
\* a reader returns UserDataBorrowMutError.
C7_BorrowDiscipline ==
    /\ []C7_Cells
    /\ [][\A c \in Calls :
              (/\ Call(c[1], c[2]) /\ LiveMethod(c[1]) /\ Matches(c[1], c[2])
               /\ fns[c[1]].variant = "Method")
                  => IF cells[fns[c[1]].cell].writer
                     THEN result' = "UserDataBorrowError" /\ stack' = stack
                                                         /\ cells' = cells
                     ELSE result' = "Invoked" /\ stack' = Append(stack, c[1])]_vars
    /\ [][\A c \in Calls :
              (/\ Call(c[1], c[2]) /\ LiveMethod(c[1]) /\ Matches(c[1], c[2])
               /\ fns[c[1]].variant = "MethodMut"
               /\ cells[fns[c[1]].cell].readers > 0)
                  => (result' = "UserDataBorrowMutError" /\ stack' = stack
                                                        /\ cells' = cells)]_vars

\* Two nested reads hold the cell, and a write was refused.
C7_Witness ==
    /\ result = "UserDataBorrowMutError"
    /\ \E a \in Addrs : cells[a].readers = 2

\* ---------------------------------------------------------------------- C8
\* No element occurs twice in s.
NoDuplicates(s) == \A i, j \in 1..Len(s) : s[i] = s[j] => i = j


\* The registry holds the registrations while the Scope is Active; no deferred
\* action is invoked twice or out of turn; after Phase 1 all were invoked and
\* the registry is empty.
C8_Registry ==
    /\ scopeState = "Active" => (invLog = <<>> /\ destructors = regLog)
    /\ NoDuplicates(invLog)
    /\ IsPrefix(invLog, regLog)
    /\ scopeState \in {"Dropped", "Terminated"} =>
           (destructors = <<>> /\ invLog = regLog)

C9_FailedRegistration ==
    /\ [][\A variant \in {"Fn", "FnMut"} :
              CreateFunction(variant, FALSE)
                  => (result' = "Error" /\ destructors' = destructors
                                       /\ fns' = fns)]_vars
    /\ [][CreateStaticUserData(FALSE)
              => (result' = "Error" /\ destructors' = destructors
                                   /\ uds' = uds)]_vars

\* A creation failed on a Scope that holds deferred actions, and no
\* create_nonstatic_userdata left a trace.
C9_Witness ==
    /\ result = "Error"
    /\ scopeState = "Active"
    /\ Len(destructors) = 2
    /\ \A h \in 1..Len(fns) : fns[h].variant \in {"Fn", "FnMut"}
    /\ \A u \in 1..Len(uds) : uds[u].kind = "static"

\* --------------------------------------------------------------------- C10
\* C10: every successful create_nonstatic_userdata leaves in the registry a
\* deferred action for the data object it created, whatever the number of
\* methods the type registers.
C10_DataObjectRegistered ==
    [][\A ms \in SeqsUpTo(MethodVariants, MaxMethods), addr \in Addrs :
          CreateNonStaticUserData(ms, addr, Len(ms), TRUE)
              => \E i \in 1..Len(destructors') :
                     destructors'[i] = Destructor("userdata", Len(uds'))]_vars

\* --------------------------------------------------------------------- C11
\* A static userdata of the current Scope.
StaticInScope(u) == uds[u].kind = "static" /\ UdInScope(u)

\* While the Scope is Active the storage of each of its static userdata holds
\* the value, alive; the storage holds the value exactly until the userdata's
\* deferred action has run.
C11_Stored ==
    \A u \in 1..Len(uds) :
        StaticInScope(u) =>
            /\ scopeState = "Active" =>
                   (uds[u].storage = "value" /\ uds[u].host = "live")
            /\ uds[u].storage = "value" <=>
                   (\A i \in 1..Len(invLog) : invLog[i] # Destructor("userdata", u))

PanicDestructor ==
    /\ scopeState = "Invalidating"
    /\ destructors # <<>>
    /\ destructors' = <<>>
    /\ scopeState' = "Dropped"
    /\ UNCHANGED <<scopeNo, to_drop, fns, uds, cells, stack, result, invLog,
                   dropLog, regLog, panicked>>

\* The Scope with a Phase 1 that may fail.
NextPanic == Next \/ PanicDestructor

SpecPanic == Init /\ [][NextPanic]_vars

\* Phase 1 of the current Scope ended before every deferred action was
\* invoked.
Phase1Failed ==
    /\ scopeState \in {"Dropped", "Terminated"}
    /\ Len(invLog) < Len(regLog)

\* C12: when an invalidation step fails at entry k of Phase 1, no value
\* registered in the Scope is dropped while a handle of the Scope is still
\* valid, and the failure ends the teardown: no later deferred action runs.
C12_Phase1FailureSafe ==
    /\ (Phase1Failed /\ dropLog # <<>>) =>
           \A i \in 1..Len(regLog) : Invalid(regLog[i])
    /\ Phase1Failed => destructors = <<>>

\* --------------------------------------------------------------------- C13
\* C13: a read-only or mutating method callback called with a receiver that
\* does not carry the token of its cell returns UserDataTypeMismatch, whether
\* or not the cell or the method's RefCell is borrowed at that moment, and
\* the call changes no borrow: the cells, the methods' RefCells and the
\* invocations in flight are as before.
C13_IdentityCheckFirst ==
    [][\A c \in Calls :
          (Call(c[1], c[2]) /\ LiveMethod(c[1]) /\ ~Matches(c[1], c[2]))
              => (/\ result' = "UserDataTypeMismatch"
                  /\ stack' = stack
                  /\ cells' = cells
                  /\ fns' = fns)]_vars

\* A mutating method is in flight, so that its RefCell and the cell of its
\* data are both borrowed, no other callback exists, and a call came back
\* UserDataTypeMismatch.
C13_Witness ==
    /\ result = "UserDataTypeMismatch"
    /\ Len(fns) = 1
    /\ stack = <<1>>
    /\ fns[1].variant = "MethodMut"
    /\ fns[1].borrowed
    /\ cells[fns[1].cell].writer

\* --------------------------------------------------------------------- C14
\* A borrow of the cell h captured is outstanding.
CellBorrowed(h) ==
    cells[fns[h].cell].writer \/ cells[fns[h].cell].readers > 0

\* C14 as stated: a mutating method called with its own receiver while any
\* borrow of the cell is outstanding returns UserDataBorrowMutError and does
\* not enter the user method, also when the borrow is held by this same
\* mutating method, re-entered from its own body.
C14_MutBorrowRejected ==
    [][\A c \in Calls :
          (/\ Call(c[1], c[2]) /\ LiveMethod(c[1]) /\ Matches(c[1], c[2])
           /\ fns[c[1]].variant = "MethodMut"
           /\ CellBorrowed(c[1]))
              => (result' = "UserDataBorrowMutError" /\ stack' = stack)]_vars

\* C14, amended: a mutating method called with its own receiver while any
\* borrow of the cell is outstanding does not enter the user method and
\* changes no borrow; it returns RecursiveMutCallback when an invocation of
\* this same method is in flight (its own RefCell is tried first), and
\* UserDataBorrowMutError when the borrow is held by any other callback.
C14_MutBorrowRejectedAmended ==
    [][\A c \in Calls :
          (/\ Call(c[1], c[2]) /\ LiveMethod(c[1]) /\ Matches(c[1], c[2])
           /\ fns[c[1]].variant = "MethodMut"
           /\ CellBorrowed(c[1]))
              => (/\ result' = IF Activations(c[1]) >= 1
                               THEN "RecursiveMutCallback"
                               ELSE "UserDataBorrowMutError"
                  /\ stack' = stack
                  /\ cells' = cells
                  /\ fns' = fns)]_vars

\* The only callback there is, a mutating method, is in flight and was called
\* again from its own body: the call came back RecursiveMutCallback.
C14_Witness ==
    /\ result = "RecursiveMutCallback"
    /\ Len(fns) = 1
    /\ stack = <<1>>
    /\ fns[1].variant = "MethodMut"
    /\ cells[fns[1].cell].writer

\* --------------------------------------------------------------------- C15
\* C15: the host value given to create_nonstatic_userdata is alive, its Rc
\* cell with a non-zero strong count, from the moment the call returns the
\* handle, for any number of methods of the type, zero included; it stays so
\* while the Scope is Active, and is dropped in Phase 2 only.
C15_ScopedDataLifetime ==
    /\ [][\A ms \in SeqsUpTo(MethodVariants, MaxMethods), addr \in Addrs :
              CreateNonStaticUserData(ms, addr, Len(ms), TRUE)
                  => (/\ uds'[Len(uds')].host = "live"
                      /\ cells'[addr].owners > 0)]_vars
    /\ [][\A u \in 1..Len(uds) :
              (/\ uds[u].kind = "nonstatic"
               /\ uds[u].host = "live"
               /\ uds'[u].host # "live")
                  => scopeState = "Dropped"]_vars

\* --------------------------------------------------------------------- C16
\* The first argument is missing, is no userdata, or is a userdata without a
\* token in its uservalue (one of create_static_userdata).
NoDataObject(recv) ==
    \/ recv \in {NoArg, NonUserData}
    \/ recv \in 1..Len(uds) /\ uds[recv].token = NullPtr

\* C16: a read-only or mutating method callback called with no first
\* argument, or with a first argument that is not a scoped data object,
\* returns UserDataTypeMismatch; the user method is not entered and no borrow
\* is taken.
C16_ReceiverRequired ==
    [][\A c \in Calls :
          (Call(c[1], c[2]) /\ LiveMethod(c[1]) /\ NoDataObject(c[2]))
              => (/\ result' = "UserDataTypeMismatch"
                  /\ stack' = stack
                  /\ cells' = cells
                  /\ fns' = fns)]_vars

\* A call came back UserDataTypeMismatch in a Scope that holds a method of a
\* scoped data object, idle, and a static userdata to pass to it.
C16_Witness ==
    /\ result = "UserDataTypeMismatch"
    /\ scopeState = "Active"
    /\ stack = <<>>
    /\ \E h \in 1..Len(fns) : LiveMethod(h) /\ fns[h].reachable
    /\ \E u \in 1..Len(uds) : uds[u].kind = "static"

\* --------------------------------------------------------------------- C17
\* A live free function of a scoped data object.
LiveFunction(h) ==
    /\ fns[h].variant \in {"Function", "FunctionMut"}
    /\ fns[h].upvalue = "callback"

\* C17: a free function or mutating free function registered on a scoped data
\* object is entered whatever the first argument is and whatever borrows of
\* the object's cell are outstanding, and its call leaves all cells as they
\* are; only a mutating free function that is already in flight is refused,
\* with RecursiveMutCallback.
C17_FreeFunctions ==
    [][\A c \in Calls :
          (Call(c[1], c[2]) /\ LiveFunction(c[1]))
              => (/\ cells' = cells
                  /\ IF fns[c[1]].variant = "FunctionMut" /\ Activations(c[1]) >= 1
                     THEN /\ result' = "RecursiveMutCallback"
                          /\ stack' = stack
                          /\ fns' = fns
                     ELSE /\ result' = "Invoked"
                          /\ stack' = Append(stack, c[1]))]_vars

\* A read-only method holds the cell, a mutating free function of the same
\* object was entered from its body, and was then called again and refused.
C17_Witness ==
    /\ result = "RecursiveMutCallback"
    /\ Len(stack) = 2
    /\ fns[stack[1]].variant = "Method"
    /\ fns[stack[2]].variant = "FunctionMut"
    /\ fns[stack[1]].owner = fns[stack[2]].owner
    /\ cells[fns[stack[1]].cell].readers = 1

\* --------------------------------------------------------------------- C18
\* The places of the registry that hold the deferred action of callback h.
Tracked(h) ==
    {i \in 1..Len(destructors) : destructors[i] = Destructor("callback", h)}

\* While the Scope is Active, every callback handle that still holds its
\* closure has exactly one deferred action in the registry, and every
\* deferred action for a callback is about such a handle.
C18_Tracked ==
    scopeState = "Active" =>
        /\ \A h \in 1..Len(fns) :
               fns[h].upvalue = "callback" => Cardinality(Tracked(h)) = 1
        /\ \A i \in 1..Len(destructors) :
               destructors[i].kind = "callback" =>
                   /\ destructors[i].h \in 1..Len(fns)
                   /\ fns[destructors[i].h].upvalue = "callback"

\* C18: in every state of an Active Scope each callback handle the Scope has
\* created (by create_function, create_function_mut, or as a method callback
\* of create_nonstatic_userdata, also of a call that fails after creating
\* some) has exactly one deferred action in the registry, and the operation
\* that creates handles appends their deferred actions, one each, in order.
C18_TrackingInvariant ==
    /\ []C18_Tracked
    /\ [][Len(fns') > Len(fns) =>
              /\ Len(destructors') - Len(destructors) = Len(fns') - Len(fns)
              /\ SubSeq(destructors', 1, Len(destructors)) = destructors
              /\ \A k \in 1..(Len(fns') - Len(fns)) :
                     destructors'[Len(destructors) + k]
                         = Destructor("callback", Len(fns) + k)]_vars

\* A create_nonstatic_userdata failed after it had made two method callbacks:
\* no data object came of it, and both callbacks are in the registry.
C18_Witness ==
    /\ scopeState = "Active"
    /\ result = "Error"
    /\ uds = <<>>
    /\ Len(fns) = 2
    /\ \A h \in 1..Len(fns) : ~fns[h].reachable /\ fns[h].upvalue = "callback"
    /\ Len(destructors) = 2

\* --------------------------------------------------------------------- C19
\* With no call in flight no RefCell is borrowed, and every callback that
\* holds its closure is entered when called (a method: with its own
\* receiver).
C19_Idle ==
    stack = <<>> =>
        /\ \A h \in 1..Len(fns) : ~fns[h].borrowed
        /\ \A a \in Addrs : cells[a].readers = 0 /\ ~cells[a].writer
        /\ \A c \in Calls :
               (/\ fns[c[1]].upvalue = "callback"
                /\ LiveMethod(c[1]) => Matches(c[1], c[2]))
                   => callback_call(c[1], c[2]).runs

\* C19: when an invocation returns, with a value or with the user logic's
\* error, the caller gets that outcome as it is and the borrows the
\* invocation took are released: the RefCell of its closure or method, and
\* its read or write borrow of the data; so with no call in flight nothing
\* is borrowed, and whatever calls were refused before, the next top-level
\* call is entered.
C19_BorrowsReleased ==
    /\ []C19_Idle
    /\ [][\A outcome \in {"Ok", "UserError"} :
              Return(outcome) =>
                  LET h == stack[Len(stack)]
                  IN /\ result' = outcome
                     /\ HasClosureCell(fns[h].variant) => ~fns'[h].borrowed
                     /\ fns[h].variant = "Method" =>
                            cells'[fns[h].cell].readers
                                = cells[fns[h].cell].readers - 1
                     /\ fns[h].variant = "MethodMut" =>
                            ~cells'[fns[h].cell].writer]_vars

\* The only callback there is, a mutating method, has returned the user
\* logic's error, and nothing is in flight.
C19_Witness ==
    /\ result = "UserError"
    /\ stack = <<>>
    /\ Len(fns) = 1
    /\ fns[1].variant = "MethodMut"
    /\ fns[1].upvalue = "callback"

\* --------------------------------------------------------------------- C20
\* C20: no two data-object handles of different create_nonstatic_userdata
\* calls, of this Scope or of an ended one, carry the same identity token
\* while the cell of one of them is alive: an address is not handed out again
\* as long as a handle holds it as its token.
C20_TokenUnique ==
    \A u, v \in 1..Len(uds) :
        (/\ u # v
         /\ uds[u].kind = "nonstatic"
         /\ uds[v].kind = "nonstatic"
         /\ uds[v].host = "live")
            => uds[u].token # uds[v].token

====
